---- MODULE Spec2Model ----
(***************************************************************************)
(* FlopLab: Texas Hold'em win-rate calculator.                             *)
(*   src/src/lib/poker.ts   the engine: createDeck, calculateWinRate,      *)
(*                          evaluate7, evaluate5, compareRanks             *)
(*   src/unnamed/part_000   the React App: card slots, duplicate check,    *)
(*                          debounced recompute effect                     *)
(* Arrays are sequences; the code's 0-based indices are kept in COMBOS_7_5 *)
(* and in the handlers' inputs and shifted by one where a sequence is read.*)
(***************************************************************************)
EXTENDS Integers, Sequences, FiniteSets, TLC

VARIABLES
    \* createDeck under test
    exclude, deckOut, deckPc,
    \* evaluate5 / compareRanks under test
    handA, handB, handC, rankA, rankB, rankC, cmp, evalPc,
    \* evaluate7 under test
    cards7, best7, pc7,
    \* one call of calculateWinRate
    hero, board, numPlayers, knownOpponents, iterations, grid,
    i, equity, deck, unknownOpponents, first, fullBoard, heroRank, oppRanks,
    winners, result, pc,
    \* the state of App, its pending timeout and the input events not yet dispatched
    appNumPlayers, knownOpponentsCount, heroCards, boardCards, appKnownOpponents,
    error, appEquity, appIterations, isCalculating, timer, waiting

deckVars == <<exclude, deckOut, deckPc>>
evalVars == <<handA, handB, handC, rankA, rankB, rankC, cmp, evalPc>>
eval7Vars == <<cards7, best7, pc7>>
paramVars == <<hero, board, numPlayers, knownOpponents, iterations, grid>>
trialVars == <<i, equity, deck, unknownOpponents, first, fullBoard, heroRank, oppRanks,
               winners, result, pc>>
engineVars == <<paramVars, trialVars>>
cardStateVars == <<heroCards, boardCards, appKnownOpponents>>
appVars == <<appNumPlayers, knownOpponentsCount, cardStateVars, error, appEquity,
             appIterations, isCalculating, timer, waiting>>

(***************************************************************************)
(* Card model                                                              *)
(***************************************************************************)
SUITS == <<"s", "h", "d", "c">>
RANKS == <<"2", "3", "4", "5", "6", "7", "8", "9", "T", "J", "Q", "K", "A">>

RANK_VALUE ==
    [r \in {RANKS[k] : k \in 1..Len(RANKS)} |->
        CHOOSE k \in 2..14 : RANKS[k - 1] = r]

Card(r, s) == [rank |-> r, suit |-> s]

AllCards == {Card(RANKS[r], SUITS[s]) : r \in 1..Len(RANKS), s \in 1..Len(SUITS)}

IndexIn(s, x) == CHOOSE k \in 1..Len(s) : s[k] = x

\* position of a card in the suit-major, rank-minor order
CanonIndex(card) == (IndexIn(SUITS, card.suit) - 1) * Len(RANKS) + IndexIn(RANKS, card.rank)

\* cards[idx] for an idx past the end of the array
Undefined == [rank |-> "undefined", suit |-> "undefined"]

\* a key that forgets the suit
cardToStringRankOnly(card) == card.rank

cardToString(card) == card.rank \o card.suit

Range(s) == {s[k] : k \in 1..Len(s)}

RECURSIVE Flat(_)
Flat(hands) == IF hands = <<>> THEN <<>> ELSE Head(hands) \o Flat(Tail(hands))

Max2(a, b) == IF a >= b THEN a ELSE b
Min2(a, b) == IF a <= b THEN a ELSE b

(***************************************************************************)
(* createDeck: suit-major, rank-minor scan, skipping the excluded keys     *)
(***************************************************************************)
\* the order of the two nested loops: for suit of SUITS, for rank of RANKS
LoopOrder ==
    [k \in 1..(Len(SUITS) * Len(RANKS)) |->
        Card(RANKS[((k - 1) % Len(RANKS)) + 1], SUITS[((k - 1) \div Len(RANKS)) + 1])]

createDeck(excl) ==
    LET used == {cardToString(excl[k]) : k \in 1..Len(excl)}
    IN  SelectSeq(LoopOrder, LAMBDA card : cardToString(card) \notin used)

FullDeck == createDeck(<<>>)

(***************************************************************************)
(* compareRanks: first non-zero difference, missing elements read as 0     *)
(***************************************************************************)
At0(s, k) == IF k <= Len(s) THEN s[k] ELSE 0

\* a loop that starts one element late and never reads the category
compareRanksSkipFirst(a, b) ==
    LET len == Max2(Len(a), Len(b))
        D == {k \in 2..len : At0(a, k) # At0(b, k)}
    IN  IF D = {} THEN 0
        ELSE LET k == CHOOSE x \in D : \A y \in D : x <= y
             IN  At0(a, k) - At0(b, k)

compareRanks(a, b) ==
    LET len == Max2(Len(a), Len(b))
        D == {k \in 1..len : At0(a, k) # At0(b, k)}
    IN  IF D = {} THEN 0
        ELSE LET k == CHOOSE x \in D : \A y \in D : x <= y
             IN  At0(a, k) - At0(b, k)

(***************************************************************************)
(* getStraightHigh                                                         *)
(***************************************************************************)
SortDesc(s) == SortSeq(s, LAMBDA a, b : a > b)

RECURSIVE SetToSeq(_)
SetToSeq(S) ==
    IF S = {} THEN <<>>
    ELSE LET x == CHOOSE y \in S : TRUE IN <<x>> \o SetToSeq(S \ {x})

\* the wheel reported with the ace high
getStraightHighNoWheel(ranksDesc) ==
    IF Len(ranksDesc) < 5 THEN 0
    ELSE LET sorted == SortDesc(SetToSeq(Range(ranksDesc)))
             W == {k \in 1..(Len(sorted) - 4) : sorted[k] - sorted[k + 4] = 4}
         IN  IF W # {} THEN sorted[CHOOSE k \in W : \A y \in W : k <= y]
             ELSE IF 14 \in Range(sorted) /\ 5 \in Range(sorted) /\ 4 \in Range(sorted)
                     /\ 3 \in Range(sorted) /\ 2 \in Range(sorted)
                  THEN 14
                  ELSE 0

\* null is modelled as 0: the code tests the result for truthiness only
getStraightHigh(ranksDesc) ==
    IF Len(ranksDesc) < 5 THEN 0
    ELSE LET sorted == SortDesc(SetToSeq(Range(ranksDesc)))
             W == {k \in 1..(Len(sorted) - 4) : sorted[k] - sorted[k + 4] = 4}
         IN  IF W # {} THEN sorted[CHOOSE k \in W : \A y \in W : k <= y]
             ELSE IF 14 \in Range(sorted) /\ 5 \in Range(sorted) /\ 4 \in Range(sorted)
                     /\ 3 \in Range(sorted) /\ 2 \in Range(sorted)
                  THEN 5
                  ELSE 0

(***************************************************************************)
(* evaluate5                                                               *)
(***************************************************************************)
\* card.rank of an undefined card: TypeError
evaluate5Throws(cards) == \E k \in 1..Len(cards) : cards[k] = Undefined

evaluate5(cards) ==
    LET ranks == SortDesc([k \in 1..Len(cards) |-> RANK_VALUE[cards[k].rank]])
        isFlush == \A k \in 1..Len(cards) : cards[k].suit = cards[1].suit
        count(r) == Cardinality({k \in 1..Len(ranks) : ranks[k] = r})
        uniqueRanks == SortDesc(SetToSeq(Range(ranks)))
        straightHigh == getStraightHigh(uniqueRanks)
        groups == SortSeq([k \in 1..Len(uniqueRanks) |->
                              [rank |-> uniqueRanks[k], count |-> count(uniqueRanks[k])]],
                          LAMBDA a, b : \/ a.count > b.count
                                        \/ a.count = b.count /\ a.rank > b.rank)
        restDesc == SortDesc([k \in 1..(Len(groups) - 1) |-> groups[k + 1].rank])
    IN  IF isFlush /\ straightHigh # 0 THEN <<8, straightHigh>>
        ELSE IF groups[1].count = 4 THEN <<7, groups[1].rank, groups[2].rank>>
        ELSE IF groups[1].count = 3 /\ groups[2].count = 2
             THEN <<6, groups[1].rank, groups[2].rank>>
        ELSE IF isFlush THEN <<5>> \o ranks
        ELSE IF straightHigh # 0 THEN <<4, straightHigh>>
        ELSE IF groups[1].count = 3 THEN <<3, groups[1].rank>> \o restDesc
        ELSE IF groups[1].count = 2 /\ groups[2].count = 2
             THEN <<2, Max2(groups[1].rank, groups[2].rank),
                       Min2(groups[1].rank, groups[2].rank), groups[3].rank>>
        ELSE IF groups[1].count = 2 THEN <<1, groups[1].rank>> \o restDesc
        ELSE <<0>> \o ranks

(***************************************************************************)
(* COMBOS_7_5, pick, evaluate7                                             *)
(***************************************************************************)
LexLess(a, b) ==
    \E k \in 1..Len(a) : a[k] < b[k] /\ \A j \in 1..(k - 1) : a[j] = b[j]

\* the innermost loop stopping one index early
COMBOS_7_5_Short ==
    SortSeq(SetToSeq({t \in (0..2) \X (0..3) \X (0..4) \X (0..5) \X (0..5) :
                         t[1] < t[2] /\ t[2] < t[3] /\ t[3] < t[4] /\ t[4] < t[5]}),
            LexLess)

COMBOS_7_5 ==
    SortSeq(SetToSeq({t \in (0..2) \X (0..3) \X (0..4) \X (0..5) \X (0..6) :
                         t[1] < t[2] /\ t[2] < t[3] /\ t[3] < t[4] /\ t[4] < t[5]}),
            LexLess)

pick(cards, combo) ==
    [k \in 1..Len(combo) |->
        IF combo[k] + 1 <= Len(cards) THEN cards[combo[k] + 1] ELSE Undefined]

evaluate7Throws(cards) ==
    \E k \in 1..Len(COMBOS_7_5) : evaluate5Throws(pick(cards, COMBOS_7_5[k]))

\* the loop keeping the lesser descriptor
RECURSIVE Best7FromWorst(_, _, _)
Best7FromWorst(hands, k, best) ==
    IF k > Len(hands) THEN best
    ELSE IF compareRanks(hands[k], best) < 0
         THEN Best7FromWorst(hands, k + 1, hands[k])
         ELSE Best7FromWorst(hands, k + 1, best)

\* the loop of evaluate7 over the descriptors of the 21 picks, from the second on
RECURSIVE Best7From(_, _, _)
Best7From(hands, k, best) ==
    IF k > Len(hands) THEN best
    ELSE IF compareRanks(hands[k], best) > 0
         THEN Best7From(hands, k + 1, hands[k])
         ELSE Best7From(hands, k + 1, best)

evaluate7(cards) ==
    LET hands == [k \in 1..Len(COMBOS_7_5) |-> evaluate5(pick(cards, COMBOS_7_5[k]))]
    IN  Best7From(hands, 2, hands[1])

(***************************************************************************)
(* createDeck under test: the excluded array is the input                  *)
(***************************************************************************)
MaxExclude == 2

RECURSIVE SeqsUpTo(_, _)
SeqsUpTo(S, n) ==
    IF n = 0 THEN {<<>>}
    ELSE LET shorter == SeqsUpTo(S, n - 1)
         IN  shorter \cup {Append(q, x) : q \in {r \in shorter : Len(r) = n - 1}, x \in S}

\* a contiguous run of the full deck, from the whole deck down to one card
DeckRuns == {SubSeq(FullDeck, a, b) : a \in {1, 14, 27}, b \in {13, 39, 51, 52}}

ExcludeInputs == SeqsUpTo(AllCards, MaxExclude) \cup DeckRuns

DeckInit ==
    /\ exclude \in ExcludeInputs
    /\ deckOut = <<>>
    /\ deckPc = "call"

CreateDeck ==
    /\ deckPc = "call"
    /\ deckOut' = createDeck(exclude)
    /\ deckPc' = "returned"
    /\ UNCHANGED <<exclude, evalVars, eval7Vars, engineVars, appVars>>

DeckIdle == exclude = <<>> /\ deckOut = <<>> /\ deckPc = "off"

(***************************************************************************)
(* evaluate5 and compareRanks under test: three hands are the input        *)
(***************************************************************************)
Hand(rs, ss) == [k \in 1..Len(rs) |-> Card(rs[k], ss[k])]

\* six cards each; a hand is a sub-deck less one card
SubDecks ==
    { Hand(<<"A", "K", "Q", "J", "T", "9">>, <<"s", "s", "s", "s", "s", "s">>),
      Hand(<<"2", "2", "2", "2", "K", "K">>, <<"s", "h", "d", "c", "s", "h">>),
      Hand(<<"A", "5", "4", "3", "2", "6">>, <<"h", "d", "c", "s", "h", "d">>),
      Hand(<<"K", "K", "Q", "Q", "7", "3">>, <<"d", "c", "d", "c", "h", "c">>),
      Hand(<<"9", "9", "9", "J", "4", "8">>, <<"h", "d", "c", "h", "s", "d">>) }

Without(s, k) == SubSeq(s, 1, k - 1) \o SubSeq(s, k + 1, Len(s))

PoolHands == {Without(d, k) : d \in SubDecks, k \in 1..6}

SuitSet == Range(SUITS)
RankSet == Range(RANKS)

RoyalHands == {Hand(<<"T", "J", "Q", "K", "A">>, <<s, s, s, s, s>>) : s \in SuitSet}

\* A-2-3-4-5 with the ace and the five in any suits, not all five cards alike
WheelHands ==
    {Hand(<<"A", "2", "3", "4", "5">>, <<s, "h", "d", "h", t>>) : s \in SuitSet, t \in SuitSet}

\* the ace in the middle: Q-K-A-2-3 and its neighbours are no straights
AroundHands ==
    { Hand(<<"J", "Q", "K", "A", "2">>, <<"s", "h", "d", "c", "s">>),
      Hand(<<"Q", "K", "A", "2", "3">>, <<"s", "h", "d", "c", "s">>),
      Hand(<<"K", "A", "2", "3", "4">>, <<"s", "h", "d", "c", "s">>) }

QuadHands ==
    {<<Card(p[1], "s"), Card(p[1], "h"), p[2], Card(p[1], "d"), Card(p[1], "c")>> :
        p \in {q \in RankSet \X AllCards : q[2].rank # q[1]}}

EvalInit ==
    /\ \/ handA \in PoolHands /\ handB \in PoolHands /\ handC \in PoolHands
       \/ /\ handA \in RoyalHands \cup WheelHands \cup AroundHands
          /\ handB \in QuadHands
          /\ handC = handA
    /\ rankA = <<>> /\ rankB = <<>> /\ rankC = <<>>
    /\ cmp = <<>>
    /\ evalPc = "evaluate"

Evaluate5 ==
    /\ evalPc = "evaluate"
    /\ rankA' = evaluate5(handA)
    /\ rankB' = evaluate5(handB)
    /\ rankC' = evaluate5(handC)
    /\ evalPc' = "compare"
    /\ UNCHANGED <<handA, handB, handC, cmp, deckVars, eval7Vars, engineVars, appVars>>

CompareRanks ==
    /\ evalPc = "compare"
    /\ cmp' = [ab |-> compareRanks(rankA, rankB), ba |-> compareRanks(rankB, rankA),
               bc |-> compareRanks(rankB, rankC), cb |-> compareRanks(rankC, rankB),
               ac |-> compareRanks(rankA, rankC), ca |-> compareRanks(rankC, rankA)]
    /\ evalPc' = "done"
    /\ UNCHANGED <<handA, handB, handC, rankA, rankB, rankC, deckVars, eval7Vars, engineVars, appVars>>

EvalIdle ==
    /\ handA = <<>> /\ handB = <<>> /\ handC = <<>>
    /\ rankA = <<>> /\ rankB = <<>> /\ rankC = <<>>
    /\ cmp = <<>> /\ evalPc = "off"

(***************************************************************************)
(* evaluate7 under test: an array of 5, 6 or 7 distinct cards is the input *)
(***************************************************************************)
Eval7DeckSize == 10

Eval7Cards ==
    Hand(<<"A", "K", "Q", "J", "T", "A", "K", "K", "5", "4", "3", "2">>,
         <<"s", "s", "s", "s", "s", "h", "h", "d", "d", "c", "c", "h">>)

Eval7Deck == Range(SubSeq(Eval7Cards, 1, Min2(Eval7DeckSize, Len(Eval7Cards))))

Eval7Init ==
    /\ cards7 \in {SetToSeq(S) : S \in {T \in SUBSET Eval7Deck : Cardinality(T) \in 5..7}}
    /\ best7 = <<>>
    /\ pc7 = "call"

Evaluate7 ==
    /\ pc7 = "call"
    /\ IF evaluate7Throws(cards7)
       THEN pc7' = "threw" /\ best7' = <<>>
       ELSE pc7' = "returned" /\ best7' = evaluate7(cards7)
    /\ UNCHANGED <<cards7, deckVars, evalVars, engineVars, appVars>>

Eval7Idle == cards7 = <<>> /\ best7 = <<>> /\ pc7 = "off"

(***************************************************************************)
(* calculateWinRate, one call, statement by statement                      *)
(***************************************************************************)
\* 1 / winners.length is kept as CreditUnit \div Len(winners): CreditUnit is
\* divisible by every winner count 1..9, so equity counts in CreditUnit-ths
CreditUnit == 2520

unknownOpponentsCount == Max2(numPlayers - 1 - Len(knownOpponents), 0)

\* drawRandom without the splice: the card is read and stays in the deck
drawRandomNoSplice(d, r, g) ==
    LET idx == (r * Len(d)) \div g
    IN  IF d = <<>> THEN [card |-> Undefined, deck |-> d]
        ELSE [card |-> d[idx + 1], deck |-> d]

\* Math.random() is r / g for some r in 0..g-1; an empty deck yields undefined
drawRandom(d, r, g) ==
    LET idx == (r * Len(d)) \div g
    IN  IF d = <<>> THEN [card |-> Undefined, deck |-> d]
        ELSE [card |-> d[idx + 1], deck |-> Without(d, idx + 1)]

\* the forEach without its cmp === 0 branch: a tie is not recorded
RECURSIVE WinnersFromNoTie(_, _, _, _)
WinnersFromNoTie(ranks, k, bestRank, w) ==
    IF k > Len(ranks) THEN w
    ELSE IF compareRanks(ranks[k], bestRank) > 0
         THEN WinnersFromNoTie(ranks, k + 1, ranks[k], <<k - 1>>)
         ELSE WinnersFromNoTie(ranks, k + 1, bestRank, w)

\* the forEach over allOpponents: ranks[k] is the rank of opponent index k - 1
RECURSIVE WinnersFrom(_, _, _, _)
WinnersFrom(ranks, k, bestRank, w) ==
    IF k > Len(ranks) THEN w
    ELSE LET c == compareRanks(ranks[k], bestRank)
         IN  IF c > 0 THEN WinnersFrom(ranks, k + 1, ranks[k], <<k - 1>>)
             ELSE IF c = 0 THEN WinnersFrom(ranks, k + 1, bestRank, Append(w, k - 1))
             ELSE WinnersFrom(ranks, k + 1, bestRank, w)

allOpponents == knownOpponents \o unknownOpponents

CallWinRate ==
    /\ pc = "call"
    /\ equity' = 0
    /\ i' = 0
    /\ pc' = "loop"
    /\ UNCHANGED <<paramVars, deck, unknownOpponents, first, fullBoard, heroRank, oppRanks,
                   winners, result, deckVars, evalVars, eval7Vars, appVars>>

StartTrial ==
    /\ pc = "loop"
    /\ i < iterations
    /\ deck' = createDeck(hero \o board \o Flat(knownOpponents))
    /\ unknownOpponents' = <<>>
    /\ pc' = "opp"
    /\ UNCHANGED <<paramVars, i, equity, first, fullBoard, heroRank, oppRanks,
                   winners, result, deckVars, evalVars, eval7Vars, appVars>>

DrawFirst ==
    /\ pc = "opp"
    /\ Len(unknownOpponents) < unknownOpponentsCount
    /\ \E r \in 0..(grid - 1) :
          LET d == drawRandom(deck, r, grid)
          IN  first' = <<d.card>> /\ deck' = d.deck
    /\ pc' = "opp2"
    /\ UNCHANGED <<paramVars, i, equity, unknownOpponents, fullBoard, heroRank, oppRanks,
                   winners, result, deckVars, evalVars, eval7Vars, appVars>>

DrawSecond ==
    /\ pc = "opp2"
    /\ \E r \in 0..(grid - 1) :
          LET d == drawRandom(deck, r, grid)
          IN  /\ unknownOpponents' = Append(unknownOpponents, first \o <<d.card>>)
              /\ deck' = d.deck
    /\ first' = <<>>
    /\ pc' = "opp"
    /\ UNCHANGED <<paramVars, i, equity, fullBoard, heroRank, oppRanks,
                   winners, result, deckVars, evalVars, eval7Vars, appVars>>

CopyBoard ==
    /\ pc = "opp"
    /\ Len(unknownOpponents) >= unknownOpponentsCount
    /\ fullBoard' = board
    /\ pc' = "board"
    /\ UNCHANGED <<paramVars, i, equity, deck, unknownOpponents, first, heroRank, oppRanks,
                   winners, result, deckVars, evalVars, eval7Vars, appVars>>

DrawBoard ==
    /\ pc = "board"
    /\ Len(fullBoard) < 5
    /\ \E r \in 0..(grid - 1) :
          LET d == drawRandom(deck, r, grid)
          IN  fullBoard' = Append(fullBoard, d.card) /\ deck' = d.deck
    /\ UNCHANGED <<paramVars, i, equity, unknownOpponents, first, heroRank, oppRanks,
                   winners, result, pc, deckVars, evalVars, eval7Vars, appVars>>

\* lines 72-86: every hand is evaluated and the winners are collected; an
\* evaluate7 that throws ends the call
Showdown ==
    /\ pc = "board"
    /\ Len(fullBoard) >= 5
    /\ IF \/ evaluate7Throws(hero \o fullBoard)
          \/ \E k \in 1..Len(allOpponents) : evaluate7Throws(allOpponents[k] \o fullBoard)
       THEN /\ pc' = "threw"
            /\ UNCHANGED <<heroRank, oppRanks, winners>>
       ELSE LET h == evaluate7(hero \o fullBoard)
                o == [k \in 1..Len(allOpponents) |-> evaluate7(allOpponents[k] \o fullBoard)]
            IN  /\ heroRank' = h
                /\ oppRanks' = o
                /\ winners' = WinnersFrom(o, 1, h, <<-1>>)
                /\ pc' = "credit"
    /\ UNCHANGED <<paramVars, i, equity, deck, unknownOpponents, first, fullBoard,
                   result, deckVars, evalVars, eval7Vars, appVars>>

\* lines 88-91 and the loop's i += 1; the trial's block-scoped values end here
Credit ==
    /\ pc = "credit"
    /\ equity' = equity + (IF \E k \in 1..Len(winners) : winners[k] = -1
                           THEN CreditUnit \div Len(winners) ELSE 0)
    /\ i' = i + 1
    /\ deck' = <<>> /\ unknownOpponents' = <<>> /\ fullBoard' = <<>>
    /\ heroRank' = <<>> /\ oppRanks' = <<>> /\ winners' = <<>>
    /\ pc' = "loop"
    /\ UNCHANGED <<paramVars, first, result, deckVars, evalVars, eval7Vars, appVars>>

\* the returned equity is num / den
ReturnResult ==
    /\ pc = "loop"
    /\ i >= iterations
    /\ result' = <<[num |-> equity, den |-> CreditUnit * iterations, iterations |-> iterations]>>
    /\ pc' = "returned"
    /\ UNCHANGED <<paramVars, i, equity, deck, unknownOpponents, first, fullBoard,
                   heroRank, oppRanks, winners, deckVars, evalVars, eval7Vars, appVars>>

(***************************************************************************)
(* The calls of calculateWinRate that are checked                          *)
(***************************************************************************)
MaxIterations == 2
\* the resolution of Math.random(): FineGrid reaches every index of a deck of
\* 45 cards, CoarseGrid keeps the trials with many draws small
FineGrid == 45
CoarseGrid == 3

Call(h, b, n, known, it, g) ==
    [hero |-> h, board |-> b, numPlayers |-> n, knownOpponents |-> known,
     iterations |-> it, grid |-> g]

QuadsHero == Hand(<<"2", "2">>, <<"c", "d">>)
QuadsBoard == Hand(<<"2", "2", "K", "Q", "J">>, <<"h", "s", "s", "d", "d">>)
QuadsRest == AllCards \ Range(QuadsHero \o QuadsBoard)

\* the strongest holdings against the quads board first
StrongHands ==
    << Hand(<<"K", "K">>, <<"h", "d">>), Hand(<<"K", "Q">>, <<"c", "s">>),
       Hand(<<"A", "T">>, <<"s", "s">>), Hand(<<"Q", "Q">>, <<"h", "c">>),
       Hand(<<"J", "J">>, <<"h", "c">>), Hand(<<"A", "A">>, <<"h", "d">>),
       Hand(<<"9", "T">>, <<"d", "d">>), Hand(<<"A", "T">>, <<"c", "c">>) >>

\* one unknown opponent at full resolution; every known hand; a full table of
\* known hands; seven known hands and one unknown; two unknown hands
QuadsCalls ==
    {Call(QuadsHero, QuadsBoard, 2, <<>>, 1, FineGrid)}
    \cup {Call(QuadsHero, QuadsBoard, 2, <<<<p[1], p[2]>>>>, 1, 1) :
             p \in {q \in QuadsRest \X QuadsRest : CanonIndex(q[1]) < CanonIndex(q[2])}}
    \cup {Call(QuadsHero, QuadsBoard, n, SubSeq(StrongHands, 1, n - 1), 1, 1) : n \in 2..9}
    \cup {Call(QuadsHero, QuadsBoard, 9, SubSeq(StrongHands, 1, 7), it, CoarseGrid) :
             it \in 1..MaxIterations}
    \cup {Call(QuadsHero, QuadsBoard, 3, <<>>, it, CoarseGrid) : it \in 1..MaxIterations}

PairedHero == Hand(<<"A", "Q">>, <<"d", "d">>)
PairedBoard == Hand(<<"K", "K", "7", "7", "2">>, <<"s", "h", "d", "c", "s">>)
RoyalBoard == Hand(<<"A", "K", "Q", "J", "T">>, <<"s", "s", "s", "s", "s">>)
SuitedHero == Hand(<<"A", "K">>, <<"h", "h">>)
Queens == Hand(<<"Q", "Q">>, <<"s", "d">>)

ShowdownCalls ==
    {Call(PairedHero, PairedBoard, 2, <<>>, 1, FineGrid)}
    \cup {Call(PairedHero, PairedBoard, 3, <<Hand(<<"A", "3">>, <<"c", "h">>)>>, it, CoarseGrid) :
             it \in 1..MaxIterations}
    \cup {Call(QuadsHero, RoyalBoard, 4,
               <<Hand(<<"3", "3">>, <<"c", "d">>), Hand(<<"4", "4">>, <<"c", "d">>)>>,
               it, CoarseGrid) : it \in 1..MaxIterations}

\* before the flop, on the flop, on the turn, and a full table on the flop
FlopBoard == Hand(<<"Q", "J", "2">>, <<"h", "h", "c">>)

DrawCalls ==
    {Call(SuitedHero, <<>>, 2, <<Queens>>, 1, CoarseGrid)}
    \cup {Call(SuitedHero, FlopBoard, 3, <<Queens>>, it, CoarseGrid) : it \in 1..MaxIterations}
    \cup {Call(SuitedHero, FlopBoard \o <<Card("9", "s")>>, 2, <<>>, it, CoarseGrid) :
             it \in 1..MaxIterations}
    \cup {Call(QuadsHero, FlopBoard, 9, SubSeq(StrongHands, 1, 8), 1, CoarseGrid)}

ValidCalls == QuadsCalls \cup ShowdownCalls \cup DrawCalls

As == Card("A", "s")
Kd == Card("K", "d")
Tc == Card("T", "c")

\* what the spec's preconditions exclude: a hand that is not 2 cards, a card
\* held twice, more known hands than opponents
InvalidCalls ==
    {Call(h, PairedBoard, 2, <<Queens>>, it, CoarseGrid) :
        h \in {<<>>, <<As>>, <<As, Kd, Tc>>, <<As, As>>, <<As, PairedBoard[1]>>, <<As, Queens[1]>>},
        it \in 1..MaxIterations}
    \cup {Call(<<As, Kd>>, SubSeq(PairedBoard, 1, 4), 3, <<k>>, it, CoarseGrid) :
        k \in {<<Tc>>, <<Tc, Queens[1], Queens[2]>>, <<Tc, Tc>>}, it \in 1..MaxIterations}
    \cup {Call(<<As, Kd>>, PairedBoard, 2, <<Queens, <<Tc, Card("9", "c")>>>>, it, CoarseGrid) :
        it \in 1..MaxIterations}

NoDuplicate(cards) == \A a, b \in 1..Len(cards) : a # b => cards[a] # cards[b]

ValidInput ==
    /\ Len(hero) = 2
    /\ \A k \in 1..Len(knownOpponents) : Len(knownOpponents[k]) = 2
    /\ Len(knownOpponents) <= numPlayers - 1
    /\ NoDuplicate(hero \o board \o Flat(knownOpponents))

EngineInit(calls) ==
    /\ \E c \in calls :
          /\ hero = c.hero /\ board = c.board /\ numPlayers = c.numPlayers
          /\ knownOpponents = c.knownOpponents /\ iterations = c.iterations
          /\ grid = c.grid
    /\ i = 0 /\ equity = 0 /\ deck = <<>> /\ unknownOpponents = <<>>
    /\ first = <<>> /\ fullBoard = <<>> /\ heroRank = <<>> /\ oppRanks = <<>>
    /\ winners = <<>> /\ result = <<>> /\ pc = "call"

EngineIdle ==
    /\ hero = <<>> /\ board = <<>> /\ numPlayers = 2 /\ knownOpponents = <<>>
    /\ iterations = 0 /\ grid = 1
    /\ i = 0 /\ equity = 0 /\ deck = <<>> /\ unknownOpponents = <<>>
    /\ first = <<>> /\ fullBoard = <<>> /\ heroRank = <<>> /\ oppRanks = <<>>
    /\ winners = <<>> /\ result = <<>> /\ pc = "off"

(***************************************************************************)
(* App: the card slots, the settings and the debounced recompute           *)
(*                                                                         *)
(* An event handler runs to completion together with the renders and       *)
(* effects it causes.  The grid-local state of CardInputGrid (activeIndex, *)
(* selectedSuit, pendingTen) is set by clicks and keys that change nothing *)
(* else, so a key press takes it as an input.                              *)
(***************************************************************************)

\* an empty slot
null == [rank |-> "", suit |-> ""]

\* the ranks and suits typed into the grids, and the values typed into the
\* two number inputs
UIRanks == {"A", "K"}
UISuits == {"s"}
NoSuit == "none"
PlayersInputs == {1, 3}
KnownInputs == {0, 1, 2}

\* iterations of a run started by App (5000 in the source)
RunIterations == 2
\* input events that may arrive while a timeout callback is running
MaxWaiting == 1

nextEmptyIndex(cards) ==
    IF \E k \in 1..Len(cards) : cards[k] = null
    THEN (CHOOSE k \in 1..Len(cards) :
             cards[k] = null /\ \A j \in 1..(k - 1) : cards[j] # null) - 1
    ELSE -1

compactCards(cards) == SelectSeq(cards, LAMBDA card : card # null)

toKey(card) == card.rank \o card.suit

\* a scan that compares only neighbouring cards
hasDuplicateAdjacent(cards) ==
    \E a \in 1..(Len(cards) - 1) : toKey(cards[a]) = toKey(cards[a + 1])

hasDuplicate(cards) ==
    \E a, b \in 1..Len(cards) : a < b /\ toKey(cards[a]) = toKey(cards[b])

flatCompact(hands) == Flat([k \in 1..Len(hands) |-> compactCards(hands[k])])

canCalculate(h, k) ==
    /\ Len(compactCards(h)) = 2
    /\ ~ \E j \in 1..Len(k) : Len(compactCards(k[j])) # 2

\* the setKnownOpponents updater of the first effect
resizeKnownOpponents(prev, count) ==
    IF Len(prev) < count
    THEN prev \o [j \in 1..(count - Len(prev)) |-> <<null, null>>]
    ELSE SubSeq(prev, 1, count)

\* what the recompute effect reads and writes besides its dependencies
effectState == [equity |-> appEquity, isCalculating |-> isCalculating, timer |-> timer]

\* one run of the recompute effect: the cleanup of the previous run clears its
\* timeout, then the body either resets equity or schedules a new timeout
\* that captures the inputs
recompute(st, h, b, k, n) ==
    IF ~canCalculate(h, k)
    THEN [equity |-> <<>>, isCalculating |-> st.isCalculating, timer |-> <<>>]
    ELSE [equity |-> st.equity, isCalculating |-> TRUE,
          timer |-> <<[hero |-> compactCards(h), board |-> compactCards(b),
                       numPlayers |-> n,
                       knownOpponents |-> [j \in 1..Len(k) |-> compactCards(k[j])]]>>]

SetEffectState(st) ==
    /\ appEquity' = st.equity
    /\ isCalculating' = st.isCalculating
    /\ timer' = st.timer

handleHeroSet(index, card) ==
    LET nextHero == [heroCards EXCEPT ![index + 1] = card]
        nextAll == compactCards(nextHero) \o compactCards(boardCards)
                       \o flatCompact(appKnownOpponents)
    IN  IF hasDuplicate(nextAll)
        THEN [ok |-> FALSE, error |-> "Duplicate card detected.", cards |-> heroCards]
        ELSE [ok |-> TRUE, error |-> "", cards |-> nextHero]

handleBoardSet(index, card) ==
    LET nextBoard == [boardCards EXCEPT ![index + 1] = card]
        nextAll == compactCards(heroCards) \o compactCards(nextBoard)
                       \o flatCompact(appKnownOpponents)
    IN  IF hasDuplicate(nextAll)
        THEN [ok |-> FALSE, error |-> "Duplicate card detected.", cards |-> boardCards]
        ELSE [ok |-> TRUE, error |-> "", cards |-> nextBoard]

handleOpponentSet(handIndex, cardIndex, card) ==
    LET nextOpponents == [appKnownOpponents EXCEPT ![handIndex + 1][cardIndex + 1] = card]
        nextAll == compactCards(heroCards) \o compactCards(boardCards)
                       \o flatCompact(nextOpponents)
    IN  IF hasDuplicate(nextAll)
        THEN [ok |-> FALSE, error |-> "Duplicate card detected.", cards |-> appKnownOpponents]
        ELSE [ok |-> TRUE, error |-> "", cards |-> nextOpponents]

\* the slot a typed card goes to (line 71)
targetIndex(cards, activeIndex) ==
    IF cards[activeIndex + 1] # null THEN nextEmptyIndex(cards) ELSE activeIndex

\* an input event is dispatched only when no callback is running
Dispatch ==
    /\ pc = "off"
    /\ waiting' = Max2(waiting - 1, 0)

AppInit ==
    /\ appNumPlayers = 6 /\ knownOpponentsCount = 0
    /\ heroCards = <<null, null>>
    /\ boardCards = <<null, null, null, null, null>>
    /\ appKnownOpponents = <<>>
    /\ error = "" /\ appEquity = <<>> /\ appIterations = 0
    /\ isCalculating = FALSE /\ timer = <<>> /\ waiting = 0

restVars == <<deckVars, evalVars, eval7Vars, engineVars>>

\* the keydown handler of the hero grid for a rank key
HeroKey ==
    /\ Dispatch
    /\ \E activeIndex \in 0..1, suit \in UISuits \cup {NoSuit}, rank \in UIRanks :
          LET index == targetIndex(heroCards, activeIndex)
              r == handleHeroSet(index, Card(rank, suit))
          IN  IF suit = NoSuit
              THEN /\ error' = "Select a suit first."
                   /\ UNCHANGED <<heroCards, appEquity, isCalculating, timer>>
              ELSE IF index = -1
              THEN UNCHANGED <<error, heroCards, appEquity, isCalculating, timer>>
              ELSE /\ error' = r.error
                   /\ heroCards' = r.cards
                   /\ IF r.ok
                      THEN SetEffectState(recompute(effectState, r.cards, boardCards,
                                                    appKnownOpponents, appNumPlayers))
                      ELSE UNCHANGED <<appEquity, isCalculating, timer>>
    /\ UNCHANGED <<appNumPlayers, knownOpponentsCount, boardCards, appKnownOpponents,
                   appIterations, restVars>>

\* the keydown handler of the board grid for a rank key
BoardKey ==
    /\ Dispatch
    /\ \E activeIndex \in 0..4, suit \in UISuits \cup {NoSuit}, rank \in UIRanks :
          LET index == targetIndex(boardCards, activeIndex)
              r == handleBoardSet(index, Card(rank, suit))
          IN  IF suit = NoSuit
              THEN /\ error' = "Select a suit first."
                   /\ UNCHANGED <<boardCards, appEquity, isCalculating, timer>>
              ELSE IF index = -1
              THEN UNCHANGED <<error, boardCards, appEquity, isCalculating, timer>>
              ELSE /\ error' = r.error
                   /\ boardCards' = r.cards
                   /\ IF r.ok
                      THEN SetEffectState(recompute(effectState, heroCards, r.cards,
                                                    appKnownOpponents, appNumPlayers))
                      ELSE UNCHANGED <<appEquity, isCalculating, timer>>
    /\ UNCHANGED <<appNumPlayers, knownOpponentsCount, heroCards, appKnownOpponents,
                   appIterations, restVars>>

\* the keydown handler of a known opponent's grid for a rank key
OpponentKey ==
    /\ Dispatch
    /\ \E handIndex \in 0..(Len(appKnownOpponents) - 1), activeIndex \in 0..1,
          suit \in UISuits \cup {NoSuit}, rank \in UIRanks :
          LET index == targetIndex(appKnownOpponents[handIndex + 1], activeIndex)
              r == handleOpponentSet(handIndex, index, Card(rank, suit))
          IN  IF suit = NoSuit
              THEN /\ error' = "Select a suit first."
                   /\ UNCHANGED <<appKnownOpponents, appEquity, isCalculating, timer>>
              ELSE IF index = -1
              THEN UNCHANGED <<error, appKnownOpponents, appEquity, isCalculating, timer>>
              ELSE /\ error' = r.error
                   /\ appKnownOpponents' = r.cards
                   /\ IF r.ok
                      THEN SetEffectState(recompute(effectState, heroCards, boardCards,
                                                    r.cards, appNumPlayers))
                      ELSE UNCHANGED <<appEquity, isCalculating, timer>>
    /\ UNCHANGED <<appNumPlayers, knownOpponentsCount, heroCards, boardCards,
                   appIterations, restVars>>

\* Backspace or Delete in the hero grid: handleClearHero
HeroBackspace ==
    /\ Dispatch
    /\ \E activeIndex \in 0..1 :
          LET next == [heroCards EXCEPT ![activeIndex + 1] = null]
          IN  /\ heroCards' = next
              /\ SetEffectState(recompute(effectState, next, boardCards,
                                          appKnownOpponents, appNumPlayers))
    /\ error' = ""
    /\ UNCHANGED <<appNumPlayers, knownOpponentsCount, boardCards, appKnownOpponents,
                   appIterations, restVars>>

\* Backspace or Delete in the board grid: handleClearBoard
BoardBackspace ==
    /\ Dispatch
    /\ \E activeIndex \in 0..4 :
          LET next == [boardCards EXCEPT ![activeIndex + 1] = null]
          IN  /\ boardCards' = next
              /\ SetEffectState(recompute(effectState, heroCards, next,
                                          appKnownOpponents, appNumPlayers))
    /\ error' = ""
    /\ UNCHANGED <<appNumPlayers, knownOpponentsCount, heroCards, appKnownOpponents,
                   appIterations, restVars>>

\* Backspace or Delete in a known opponent's grid: handleClearOpponent
OpponentBackspace ==
    /\ Dispatch
    /\ \E handIndex \in 0..(Len(appKnownOpponents) - 1), activeIndex \in 0..1 :
          LET next == [appKnownOpponents EXCEPT ![handIndex + 1][activeIndex + 1] = null]
          IN  /\ appKnownOpponents' = next
              /\ SetEffectState(recompute(effectState, heroCards, boardCards,
                                          next, appNumPlayers))
    /\ error' = ""
    /\ UNCHANGED <<appNumPlayers, knownOpponentsCount, heroCards, boardCards,
                   appIterations, restVars>>

\* onChange of the Players input; the second effect clamps the count, the
\* recompute effect runs for the new numPlayers, and when the count changed
\* the first effect resizes knownOpponents and the recompute effect runs again
SetNumPlayers ==
    /\ Dispatch
    /\ \E value \in PlayersInputs :
          LET n == Min2(9, Max2(2, value))
              count == Min2(knownOpponentsCount, n - 1)
              known == resizeKnownOpponents(appKnownOpponents, count)
              st1 == recompute(effectState, heroCards, boardCards, appKnownOpponents, n)
              st2 == IF count = knownOpponentsCount THEN st1
                     ELSE recompute(st1, heroCards, boardCards, known, n)
          IN  IF n = appNumPlayers
              THEN UNCHANGED <<appNumPlayers, knownOpponentsCount, appKnownOpponents,
                               appEquity, isCalculating, timer>>
              ELSE /\ appNumPlayers' = n
                   /\ knownOpponentsCount' = count
                   /\ appKnownOpponents' = known
                   /\ SetEffectState(st2)
    /\ UNCHANGED <<heroCards, boardCards, error, appIterations, restVars>>

\* onChange of the Known Opponents input; the first effect resizes
\* knownOpponents and the recompute effect runs for the new list
SetKnownOpponentsCount ==
    /\ Dispatch
    /\ \E value \in KnownInputs :
          LET count == Min2(appNumPlayers - 1, Max2(0, value))
              known == resizeKnownOpponents(appKnownOpponents, count)
          IN  IF count = knownOpponentsCount
              THEN UNCHANGED <<knownOpponentsCount, appKnownOpponents,
                               appEquity, isCalculating, timer>>
              ELSE /\ knownOpponentsCount' = count
                   /\ appKnownOpponents' = known
                   /\ SetEffectState(recompute(effectState, heroCards, boardCards,
                                               known, appNumPlayers))
    /\ UNCHANGED <<appNumPlayers, heroCards, boardCards, error, appIterations, restVars>>

\* the timeout fires: its callback calls calculateWinRate with the inputs it
\* captured and iterations: 5000
TimerFires ==
    /\ pc = "off"
    /\ timer # <<>>
    /\ hero' = timer[1].hero
    /\ board' = timer[1].board
    /\ numPlayers' = timer[1].numPlayers
    /\ knownOpponents' = timer[1].knownOpponents
    /\ iterations' = RunIterations
    /\ pc' = "call"
    /\ timer' = <<>>
    /\ UNCHANGED <<grid, i, equity, deck, unknownOpponents, first, fullBoard, heroRank,
                   oppRanks, winners, result, deckVars, evalVars, eval7Vars,
                   appNumPlayers, knownOpponentsCount, cardStateVars, error, appEquity,
                   appIterations, isCalculating, waiting>>

\* what one trial can add to equity: nothing, or 1 / winners.length
TrialCredits(n) == {0} \cup {CreditUnit \div k : k \in 1..n}

\* one iteration of the loop of calculateWinRate as a single step; the credit
\* is decided by the trial's draws
RunTrial ==
    /\ pc = "loop"
    /\ i < iterations
    /\ \E credit \in TrialCredits(numPlayers) : equity' = equity + credit
    /\ i' = i + 1
    /\ UNCHANGED <<paramVars, deck, unknownOpponents, first, fullBoard, heroRank, oppRanks,
                   winners, result, pc, deckVars, evalVars, eval7Vars, appVars>>

\* the callback after calculateWinRate returned: setEquity, setIterations,
\* setIsCalculating(false); no dependency of the recompute effect changes
TimerDone ==
    /\ pc = "returned"
    /\ appEquity' = <<[num |-> result[1].num, den |-> result[1].den]>>
    /\ appIterations' = result[1].iterations
    /\ isCalculating' = FALSE
    /\ hero' = <<>> /\ board' = <<>> /\ numPlayers' = 2 /\ knownOpponents' = <<>>
    /\ iterations' = 0 /\ i' = 0 /\ equity' = 0 /\ result' = <<>>
    /\ pc' = "off"
    /\ UNCHANGED <<grid, deck, unknownOpponents, first, fullBoard, heroRank, oppRanks,
                   winners, deckVars, evalVars, eval7Vars,
                   appNumPlayers, knownOpponentsCount, cardStateVars, error, timer, waiting>>

\* the user presses a key or edits an input while the callback is running;
\* the event waits until the callback has returned
UserEventArrives ==
    /\ pc # "off"
    /\ waiting < MaxWaiting
    /\ waiting' = waiting + 1
    /\ UNCHANGED <<restVars, appNumPlayers, knownOpponentsCount, cardStateVars, error,
                   appEquity, appIterations, isCalculating, timer>>

vars == <<deckVars, evalVars, eval7Vars, engineVars, appVars>>

InitDeck == DeckInit /\ EvalIdle /\ Eval7Idle /\ EngineIdle /\ AppInit
NextDeck == CreateDeck
SpecDeck == InitDeck /\ [][NextDeck]_vars

InitEval == EvalInit /\ DeckIdle /\ Eval7Idle /\ EngineIdle /\ AppInit
NextEval == Evaluate5 \/ CompareRanks
SpecEval == InitEval /\ [][NextEval]_vars

InitEval7 == Eval7Init /\ DeckIdle /\ EvalIdle /\ EngineIdle /\ AppInit
NextEval7 == Evaluate7
SpecEval7 == InitEval7 /\ [][NextEval7]_vars

NextEngine ==
    \/ CallWinRate
    \/ StartTrial
    \/ DrawFirst
    \/ DrawSecond
    \/ CopyBoard
    \/ DrawBoard
    \/ Showdown
    \/ Credit
    \/ ReturnResult

\* calls that meet the preconditions
InitEngine == EngineInit(ValidCalls) /\ DeckIdle /\ EvalIdle /\ Eval7Idle /\ AppInit
SpecEngine == InitEngine /\ [][NextEngine]_vars

\* calls of every kind, the invalid ones included
InitAnyCall == EngineInit(InvalidCalls \cup DrawCalls) /\ DeckIdle /\ EvalIdle /\ Eval7Idle /\ AppInit
SpecAnyCall == InitAnyCall /\ [][NextEngine]_vars

NextApp ==
    \/ HeroKey
    \/ BoardKey
    \/ OpponentKey
    \/ HeroBackspace
    \/ BoardBackspace
    \/ OpponentBackspace
    \/ SetNumPlayers
    \/ SetKnownOpponentsCount
    \/ TimerFires
    \/ CallWinRate
    \/ RunTrial
    \/ ReturnResult
    \/ TimerDone
    \/ UserEventArrives

\* App after its first render and effects
InitApp == AppInit /\ DeckIdle /\ EvalIdle /\ Eval7Idle /\ EngineIdle
SpecApp == InitApp /\ [][NextApp]_vars

(***************************************************************************)
(* Properties                                                              *)
(***************************************************************************)
\* C4: createDeck returns 52 - |distinct excluded| cards, none excluded, no card
\* twice, in suit-major rank-minor order; all 52 for no exclusion, none for all 52.
C4_CreateDeckContract ==
    deckPc = "returned" =>
        /\ Len(deckOut) = Len(SUITS) * Len(RANKS) - Cardinality(Range(exclude))
        /\ Range(deckOut) \subseteq AllCards
        /\ Range(deckOut) \cap Range(exclude) = {}
        /\ \A k \in 1..(Len(deckOut) - 1) : CanonIndex(deckOut[k]) < CanonIndex(deckOut[k + 1])
        /\ (exclude = <<>> => Range(deckOut) = AllCards)
        /\ (Range(exclude) = AllCards => deckOut = <<>>)

\* the same card excluded twice counts once
C4_Witness ==
    /\ deckPc = "returned"
    /\ Len(exclude) = 2 /\ exclude[1] = exclude[2]
    /\ Len(deckOut) = Cardinality(AllCards) - 1

Subsets5(cards) == {T \in SUBSET Range(cards) : Cardinality(T) = 5}

\* d is the greatest evaluate5 descriptor among the 5-card subsets of cards
IsMaxOfSubsets(cards, d) ==
    /\ \E T \in Subsets5(cards) : d = evaluate5(SetToSeq(T))
    /\ \A T \in Subsets5(cards) : compareRanks(d, evaluate5(SetToSeq(T))) >= 0

Choose5(n) == (n * (n - 1) * (n - 2) * (n - 3) * (n - 4)) \div (5 * 4 * 3 * 2)

Sign(x) == IF x > 0 THEN 1 ELSE IF x < 0 THEN -1 ELSE 0

\* C7: over evaluate5 descriptors compareRanks is antisymmetric and transitive,
\* and a greater category wins whatever the tie-break values are.
C7_CompareIsOrder ==
    evalPc = "done" =>
        /\ Sign(cmp.ab) = -Sign(cmp.ba)
        /\ Sign(cmp.bc) = -Sign(cmp.cb)
        /\ Sign(cmp.ac) = -Sign(cmp.ca)
        /\ (cmp.ab > 0 /\ cmp.bc > 0 => cmp.ac > 0)
        /\ (cmp.ab >= 0 /\ cmp.bc >= 0 => cmp.ac >= 0)
        /\ (cmp.ab = 0 /\ cmp.bc = 0 => cmp.ac = 0)
        /\ (rankA[1] > rankB[1] => cmp.ab > 0)
        /\ (rankB[1] > rankC[1] => cmp.bc > 0)
        /\ (rankA[1] > rankC[1] => cmp.ac > 0)

\* a chain a > b > c in which a wins on category against greater tie-breaks
C7_Witness ==
    /\ evalPc = "done"
    /\ rankA[1] > rankB[1] /\ rankA[2] < rankB[2]
    /\ Len(rankB) # Len(rankC)
    /\ cmp.ab > 0 /\ cmp.bc > 0 /\ cmp.ac > 0

\* C8: A-2-3-4-5 of mixed suits is a straight with high card 5; the ace in the
\* middle makes no straight; T-J-Q-K-A of one suit is a straight flush with
\* high card 14 and beats every four of a kind.
C8_WheelAndRoyal ==
    evalPc \in {"compare", "done"} =>
        /\ (handA \in WheelHands => rankA = <<4, 5>>)
        /\ (handA \in AroundHands => rankA[1] = 0)
        /\ (handA \in RoyalHands => rankA = <<8, 14>>)
        /\ (evalPc = "done" /\ handA \in RoyalHands /\ handB \in QuadHands =>
                rankB[1] = 7 /\ cmp.ab > 0 /\ cmp.ba < 0)

C8_Witness ==
    /\ evalPc = "done"
    /\ handA \in WheelHands /\ rankA = <<4, 5>>
    /\ handB \in QuadHands /\ rankB = <<7, 14, 13>>
    /\ cmp.ab < 0
QuadsCase == hero = QuadsHero /\ board = QuadsBoard

\* C1: with hero 2c 2d on the board 2h 2s Ks Qd Jd the hero is the sole winner
\* of every trial and the returned equity is exactly 1, for every iteration
\* count, table size and opponent holding.
C1_QuadsAlwaysWin ==
    QuadsCase =>
        /\ pc # "threw"
        /\ (pc = "credit" =>
                /\ winners = <<-1>>
                /\ Len(oppRanks) = numPlayers - 1
                /\ \A k \in 1..Len(oppRanks) : compareRanks(oppRanks[k], heroRank) < 0)
        /\ (pc = "loop" => equity = CreditUnit * i)
        /\ (pc = "returned" =>
                /\ iterations >= 1
                /\ result[1].iterations = iterations
                /\ result[1].num = result[1].den)

\* an unknown opponent drew two kings and made kings full
C1_Witness ==
    /\ QuadsCase
    /\ pc = "credit"
    /\ \E k \in 1..Len(unknownOpponents) :
          unknownOpponents[k][1].rank = "K" /\ unknownOpponents[k][2].rank = "K"
    /\ \E k \in 1..Len(oppRanks) : oppRanks[k] = <<6, 13, 2>>
    /\ winners = <<-1>>

InTrial == pc \in {"opp", "opp2", "board", "credit"}

\* C2 as claimed: a call whose input breaks a precondition runs no trial and
\* returns no result.
C2_RejectsInvalidInput ==
    ~ValidInput => ~InTrial /\ pc # "returned" /\ i = 0 /\ result = <<>>

\* C6: a trial credits the hero 1/k when the hero's descriptor is the maximum
\* over all hands and k hands attain it, and nothing otherwise; the result is
\* the sum of the credits over the iterations and lies in [0, 1].
C6_TrialCredit ==
    [][ /\ (pc = "call" => equity' = 0)
        /\ (pc = "credit" =>
               LET all == <<heroRank>> \o oppRanks
                   IsBest(r) == \A k \in 1..Len(all) : compareRanks(r, all[k]) >= 0
                   best == {k \in 1..Len(all) : IsBest(all[k])}
               IN  /\ Len(all) = numPlayers
                   /\ CreditUnit % Cardinality(best) = 0
                   /\ equity' = equity + (IF IsBest(heroRank)
                                          THEN CreditUnit \div Cardinality(best) ELSE 0)
                   /\ equity' - equity \in TrialCredits(numPlayers)
                   /\ i' = i + 1)
        /\ (pc' # "credit" /\ pc' # "call" /\ pc # "credit" => equity' = equity)
        /\ (pc' = "returned" =>
               /\ i = iterations
               /\ result'[1].num = equity
               /\ result'[1].den = CreditUnit * iterations
               /\ 0 <= result'[1].num /\ result'[1].num <= result'[1].den)
      ]_vars

\* a second trial in which four hands split: the hero is credited a quarter
C6_Witness ==
    /\ pc = "credit"
    /\ i = 1 /\ equity > 0
    /\ Len(winners) = 4 /\ winners[1] = -1

assignedCards ==
    hero \o (IF pc \in {"board", "credit"} THEN fullBoard ELSE board)
         \o Flat(knownOpponents) \o Flat(unknownOpponents) \o first

\* C10: for valid input every trial starts from a deck of 52 minus the known
\* cards, draws 2 cards per unknown opponent and then the board up to 5, never
\* draws from an empty deck, and at every point no card is held twice across
\* hero, board, opponents and deck, the deck holding 52 minus the assigned cards.
C10_TrialDeck ==
    ValidInput /\ numPlayers \in 2..9 /\ Len(board) <= 5 =>
        /\ pc # "threw"
        /\ (InTrial =>
                /\ Range(assignedCards \o deck) = AllCards
                /\ Len(deck) = Cardinality(AllCards) - Len(assignedCards)
                /\ Cardinality(Range(assignedCards)) = Len(assignedCards))
        /\ (pc = "opp" /\ unknownOpponents = <<>> =>
                deck = createDeck(hero \o board \o Flat(knownOpponents)))
        /\ (\/ pc = "opp2"
            \/ pc = "opp" /\ Len(unknownOpponents) < unknownOpponentsCount
            \/ pc = "board" /\ Len(fullBoard) < 5
              => deck # <<>>)
        /\ (pc \in {"board", "credit"} =>
                /\ Len(unknownOpponents) = Max2(numPlayers - 1 - Len(knownOpponents), 0)
                /\ \A k \in 1..Len(unknownOpponents) : Len(unknownOpponents[k]) = 2
                /\ SubSeq(fullBoard, 1, Len(board)) = board)
        /\ (pc = "credit" => Len(fullBoard) = 5)

\* the second trial of a call on the flop has drawn an opponent and two board cards
C10_Witness ==
    /\ pc = "credit"
    /\ i = 1
    /\ Len(board) = 3 /\ Len(unknownOpponents) = 1 /\ Len(knownOpponents) = 1
    /\ Len(deck) + 11 = Cardinality(AllCards)
allSlots == heroCards \o boardCards \o Flat(appKnownOpponents)

NoCardTwice ==
    \A a, b \in 1..Len(allSlots) :
        a # b /\ allSlots[a] = allSlots[b] => allSlots[a] = null

\* the cards in the slots other than slot index of the sequence cards
OtherSlots(cards, index) == {cards[j] : j \in (1..Len(cards)) \ {index + 1}}

UICards == {Card(r, s) : r \in UIRanks, s \in UISuits}

\* every set-card call with a card that is in a different slot is rejected
\* and hands back the cards it was given
DuplicateCallsRejected ==
    LET inHero == Range(heroCards)
        inBoard == Range(boardCards)
        inOpponents == Range(Flat(appKnownOpponents))
        Rejected(r, cards) ==
            r.ok = FALSE /\ r.cards = cards /\ r.error = "Duplicate card detected."
    IN  \A card \in UICards :
          /\ \A index \in 0..1 :
               card \in OtherSlots(heroCards, index) \cup inBoard \cup inOpponents
               => Rejected(handleHeroSet(index, card), heroCards)
          /\ \A index \in 0..4 :
               card \in OtherSlots(boardCards, index) \cup inHero \cup inOpponents
               => Rejected(handleBoardSet(index, card), boardCards)
          /\ \A handIndex \in 0..(Len(appKnownOpponents) - 1), index \in 0..1 :
               card \in OtherSlots(appKnownOpponents[handIndex + 1], index)
                            \cup inHero \cup inBoard
                            \cup UNION {Range(appKnownOpponents[k]) :
                                          k \in (1..Len(appKnownOpponents)) \ {handIndex + 1}}
               => Rejected(handleOpponentSet(handIndex, index, card), appKnownOpponents)

\* C3: a set-card call whose card is already in a different slot returns false
\* and leaves heroCards, boardCards and knownOpponents as they were: a step
\* that reports a duplicate changes no slot, and no card is ever in two slots.
C3_DuplicateRejected ==
    /\ [](NoCardTwice /\ DuplicateCallsRejected)
    /\ [][error' = "Duplicate card detected." /\ error' # error
            => UNCHANGED cardStateVars]_vars

\* both hole cards are set and a set of one of them on the empty board, or in
\* a known opponent's hand, was rejected
C3_Witness ==
    /\ error = "Duplicate card detected."
    /\ Len(compactCards(heroCards)) = 2
    /\ compactCards(boardCards) = <<>>
    /\ Len(appKnownOpponents) = 1
    /\ compactCards(appKnownOpponents[1]) = <<>>

\* C9 as claimed: once an input event has arrived during a run, the run starts
\* no further trial; a run starts only when no run is in progress and with an
\* accumulator of its own.
C9_CooperativeCancellation ==
    [][ /\ (pc = "loop" /\ waiting > 0 => i' = i)
        /\ (pc' = "call" /\ pc # "call" => pc = "off")
        /\ (pc = "call" => equity' = 0)
      ]_vars
\* the text of the Status field (lines 300-305)
status ==
    IF error # "" THEN error
    ELSE IF isCalculating THEN "Calculating..."
    ELSE IF appEquity # <<>> THEN "Ready"
    ELSE "Waiting for hole cards"

\* C11 as claimed: isCalculating is true only while a recompute is pending;
\* once no timeout is pending and no callback is running, isCalculating is
\* false and the Status field does not read "Calculating...".
C11_CalculatingOnlyWhilePending ==
    pc = "off" /\ timer = <<>> => ~isCalculating /\ status # "Calculating..."
====
